---- MODULE Spec2Model ----
(***************************************************************************)
(* A model of AmortaPy: the schedule generator                             *)
(* (core/_amortization_functions.py) and the Amortization entity           *)
(* (core/_amortization.py).                                                *)
(*                                                                         *)
(* Arithmetic.  Python floats are modelled as decimal fixed-point numbers: *)
(* an integer counts units of 1/Scale (eight decimals).  + and - are       *)
(* exact, * and / round to the nearest unit (ties to even), and            *)
(* round(x, 6) rounds to six decimals, two digits coarser than a unit, so  *)
(* a recorded (rounded) balance and the carried balance can differ.        *)
(* Numbers whose Python type matters (years, period counts: range() takes  *)
(* no float) are records [int, c] with c the value in hundredths.          *)
(***************************************************************************)
EXTENDS Integers, Sequences, FiniteSets, TLC

\* ------------------------------------------------------------ arithmetic
Limb == 100 * 100
Scale == Limb * Limb
CScale == 10 * 10

Abs(x) == IF x < 0 THEN -x ELSE x
Sign(x) == IF x < 0 THEN -1 ELSE 1

\* n/d as a fixed-point literal (d divides Scale)
Fx(n, d) == n * (Scale \div d)

\* round half to even of (whole + rem/den), 0 <= rem < den
RoundHalfEven(whole, rem, den) ==
    IF rem > den - rem THEN whole + 1
    ELSE IF rem < den - rem THEN whole
    ELSE IF whole % 2 = 0 THEN whole ELSE whole + 1

\* |a| * |b| / Scale by limbs, so no intermediate product leaves 32 bits:
\* a = ah*Limb + al, b = bh*Limb + bl, hh = ah*bh, x = ah*bl, y = al*bh, ll = al*bl
MulRound(whole, low) == RoundHalfEven(whole + (low \div Scale), low % Scale, Scale)
MulParts(hh, x, y, ll) ==
    MulRound(hh + (x \div Limb) + (y \div Limb), (x % Limb) * Limb + (y % Limb) * Limb + ll)
MulMag(a, b) ==
    MulParts((a \div Limb) * (b \div Limb), (a \div Limb) * (b % Limb),
             (a % Limb) * (b \div Limb), (a % Limb) * (b % Limb))

\* float * float
FMul(a, b) == Sign(a) * Sign(b) * MulMag(Abs(a), Abs(b))

\* (2r) \div b and (2r) % b for 0 <= r < b, without forming 2r
DblQ(r, b) == IF r >= b - r THEN 1 ELSE 0
DblR(r, b) == IF r >= b - r THEN r - (b - r) ELSE r + r

\* the next decimal digit q of r/b and the remainder after it, 10r = q*b + r',
\* as << q, r' >>: 2r, 4r, 5r and 10r in turn, each reduced below b
TenD(r5, c, b) == << 2 * c + DblQ(r5, b), DblR(r5, b) >>
TenC(r, r4, c, b) ==
    IF r4 >= b - r THEN TenD(r4 - (b - r), c + 1, b) ELSE TenD(r4 + r, c, b)
TenB(r, r2, c, b) == TenC(r, DblR(r2, b), 2 * c + DblQ(r2, b), b)
Ten(r, b) == TenB(r, DblR(r, b), DblQ(r, b), b)

RECURSIVE LongDiv(_, _, _, _)
LongDivNext(acc, qr, b, k) == LongDiv(10 * acc + qr[1], qr[2], b, k - 1)
\* k more decimal digits of (acc + r/b)
LongDiv(acc, r, b, k) ==
    IF k = 0 THEN RoundHalfEven(acc, r, b) ELSE LongDivNext(acc, Ten(r, b), b, k)

\* |a| / |b| in units of 1/Scale, b > 0
DivMag(a, b) == LongDiv(a \div b, a % b, b, 8)

\* float / float, b # 0 (a zero divisor raises ZeroDivisionError in the caller)
FDiv(a, b) == Sign(a) * Sign(b) * DivMag(Abs(a), Abs(b))

RECURSIVE PowNat(_, _)
\* h * h, times x when the exponent is odd
PowStep(h, x, odd) == FMul(FMul(h, h), IF odd THEN x ELSE Scale)
\* x ** k for an integer k >= 0, by squaring
PowNat(x, k) ==
    IF k = 0 THEN Scale ELSE PowStep(PowNat(x, k \div 2), x, k % 2 = 1)

\* x ** k for an integer k; x # 0 when k < 0
PowSigned(p, k) == IF k >= 0 THEN p ELSE FDiv(Scale, p)
FPow(x, k) == PowSigned(PowNat(x, Abs(k)), k)

\* round(x, 6)
Round6Unit == Scale \div (1000 * 1000)
RoundTo(m, unit) == unit * RoundHalfEven(m \div unit, m % unit, unit)
round6(x) == Sign(x) * RoundTo(Abs(x), Round6Unit)

\* ------------------------------------------------------- Python values
\* Optional[...]: None is the empty sequence, a value x is <<x>>
None == <<>>
Some(x) == <<x>>

\* a number whose Python type matters: int or float, value c / CScale
PyInt(k) == [int |-> TRUE, c |-> k * CScale]
PyFloat(k, hundredths) == [int |-> FALSE, c |-> k * CScale + hundredths]
IsWhole(x) == x.c % CScale = 0
Whole(x) == x.c \div CScale
\* x - y and x * y: int only when both operands are int
PySub(x, y) == [int |-> x.int /\ y.int, c |-> x.c - y.c]
PyMul(x, y) == [int |-> x.int /\ y.int, c |-> (x.c * y.c) \div CScale]
\* int(x): truncation toward zero
PyTrunc(x) == IF x.c >= 0 THEN x.c \div CScale ELSE -((-x.c) \div CScale)

\* -------------------------------------------- _amortization_functions.py
\* the divisor of the PMT formula; n an integer
PaymentDivisor(r, n) == FPow(Scale + r, n) - Scale

\* ZeroDivisionError of the PMT formula: 0.0 ** negative, or x / 0.0
PaymentRaises(r, n) == (Scale + r = 0 /\ n < 0) \/ PaymentDivisor(r, n) = 0

calculate_total_period_payment_drop_one(loan_amount, r, n) ==
    FMul(loan_amount, FDiv(FMul(r, FPow(Scale + r, n)), FPow(Scale + r, n)))

calculate_total_period_payment(loan_amount, r, n) ==
    FMul(loan_amount, FDiv(FMul(r, FPow(Scale + r, n)), FPow(Scale + r, n) - Scale))

calculate_interest_payment(outstanding_loan_amount, r) ==
    FMul(outstanding_loan_amount, r)

calculate_principal_payment_whole(total_period_payment, outstanding_loan_amount, r) ==
    total_period_payment

calculate_principal_payment(total_period_payment, outstanding_loan_amount, r) ==
    total_period_payment - calculate_interest_payment(outstanding_loan_amount, r)

calculate_principal_and_interest_payment_swapped(total_period_payment, outstanding_loan_amount, r) ==
    << calculate_interest_payment(outstanding_loan_amount, r),
       calculate_principal_payment(total_period_payment, outstanding_loan_amount, r) >>

calculate_principal_and_interest_payment(total_period_payment, outstanding_loan_amount, r) ==
    << calculate_principal_payment(total_period_payment, outstanding_loan_amount, r),
       calculate_interest_payment(outstanding_loan_amount, r) >>

InterestOnlyArgsInvalid_rate_alone(ior, nio) == ior > 0 /\ nio.c <= 0

\* lines 94-95: exactly one of the two interest-only arguments is positive
InterestOnlyArgsInvalid(ior, nio) ==
    (ior > 0 /\ nio.c <= 0) \/ (ior <= 0 /\ nio.c > 0)

PaymentFloor_override_as_given(tpp, expected) ==
    IF tpp = None THEN expected ELSE tpp[1]

\* lines 100-101: the override counts only when it is not below the PMT payment
PaymentFloor(tpp, expected) ==
    IF tpp = None \/ tpp[1] < expected THEN expected ELSE tpp[1]
\* lines 103-104
WithAdditional(app, total) == IF app = None THEN total ELSE total + app[1]
EffectivePayment_added_first(r, principal_amount, n, tpp, app, nio) ==
    PaymentFloor(IF tpp = None THEN None ELSE Some(WithAdditional(app, tpp[1])),
                 calculate_total_period_payment(principal_amount, r, Whole(PySub(n, nio))))

\* lines 97-104: the payment the amortizing rows use
EffectivePayment(r, principal_amount, n, tpp, app, nio) ==
    WithAdditional(app, PaymentFloor(tpp,
        calculate_total_period_payment(principal_amount, r, Whole(PySub(n, nio)))))

\* lines 129-133: the balance after the row, clamped at 0
ClosingNoClamp(opening, principal) == opening - principal
Closing(opening, principal) ==
    IF opening - principal < 0 THEN 0 ELSE opening - principal

\* line 140: the balance the row records
RecordedCents(closing) == Sign(closing) * RoundTo(Abs(closing), Scale \div CScale)
Recorded(closing) == round6(closing)

\* the arguments the loop reads: c = [n, pay, r, ior, nio]
InterestOnlyPeriod_exclusive(period, c) ==
    (c.ior > 0 /\ c.nio.c > 0) /\ period * CScale < c.nio.c

\* line 120: the period is one of the interest-only periods
InterestOnlyPeriod(period, c) ==
    (c.ior > 0 /\ c.nio.c > 0) /\ period * CScale <= c.nio.c

\* lines 120-127: << principal, interest >> before the clamp
RowPayments(period, opening, c) ==
    IF InterestOnlyPeriod(period, c) THEN << 0, FMul(opening, c.ior) >>
    ELSE calculate_principal_and_interest_payment(c.pay, opening, c.r)

RowOf_payment_kept(period, opening, unclamped, interest, payment) ==
    [ period |-> period,
      opening_balance |-> opening,
      interest |-> interest,
      principal |-> IF opening - unclamped < 0
                    THEN unclamped + (opening - unclamped) ELSE unclamped,
      period_payment |-> payment,
      closing_balance |-> Recorded(Closing(opening, unclamped)),
      carried |-> Closing(opening, unclamped) ]

RowOf_principal_kept(period, opening, unclamped, interest, payment) ==
    [ period |-> period,
      opening_balance |-> opening,
      interest |-> interest,
      principal |-> unclamped,
      period_payment |-> IF opening - unclamped < 0
                         THEN (unclamped + (opening - unclamped)) + interest
                         ELSE payment,
      closing_balance |-> Recorded(Closing(opening, unclamped)),
      carried |-> Closing(opening, unclamped) ]

\* lines 123-140: the row, from the unclamped principal and the interest
RowOf(period, opening, unclamped, interest, payment) ==
    [ period |-> period,
      opening_balance |-> opening,
      interest |-> interest,
      principal |-> IF opening - unclamped < 0
                    THEN unclamped + (opening - unclamped) ELSE unclamped,
      period_payment |-> IF opening - unclamped < 0
                         THEN (unclamped + (opening - unclamped)) + interest
                         ELSE payment,
      closing_balance |-> Recorded(Closing(opening, unclamped)),
      carried |-> Closing(opening, unclamped) ]

\* lines 123 and 127: period_payment is the interest, or the payment
RowFrom(period, opening, pi, io, pay) ==
    RowOf(period, opening, pi[1], pi[2], IF io THEN pi[2] ELSE pay)

\* lines 120-140: the row of one period
PeriodRow(period, opening, c) ==
    RowFrom(period, opening, RowPayments(period, opening, c),
            InterestOnlyPeriod(period, c), c.pay)

\* lines 135-144: append the row, carry its balance, break at 0
Advance(s, row) ==
    [ period |-> s.period + 1,
      opening |-> row.carried,
      rows |-> Append(s.rows, row),
      done |-> row.carried <= 0 ]

\* lines 118-144: one pass of the loop body from the loop state
\* [period, opening, rows, done]; `done` after the break
PeriodStep(s, c) ==
    IF s.done \/ s.period > c.n THEN [s EXCEPT !.done = TRUE]
    ELSE Advance(s, PeriodRow(s.period, s.opening, c))

RECURSIVE PeriodSteps(_, _, _)
\* k passes of the loop body (halved, to keep the evaluation shallow)
PeriodSteps(s, k, c) ==
    IF k <= 0 THEN s
    ELSE IF k = 1 THEN PeriodStep(s, c)
    ELSE LET half == PeriodSteps(s, k \div 2, c)
         IN IF half.done THEN half ELSE PeriodSteps(half, k - (k \div 2), c)

\* lines 117-144: for period in range(1, number_of_periods + 1)
PeriodLoop(principal_amount, c) ==
    PeriodSteps([period |-> 1, opening |-> principal_amount, rows |-> << >>,
                 done |-> FALSE], c.n, c).rows

Reverse(s) == [i \in 1..Len(s) |-> s[Len(s) + 1 - i]]

RECURSIVE CumSum(_)
\* Series.cumsum(): running sums, first element first
CumSum(s) ==
    IF Len(s) <= 1 THEN s
    ELSE LET m == Len(s) \div 2
             a == CumSum(SubSeq(s, 1, m))
             b == CumSum(SubSeq(s, m + 1, Len(s)))
         IN a \o [i \in 1..Len(b) |-> a[m] + b[i]]

CumulativeInterestForward(interest) == CumSum(interest)
\* line 147: df['interest'][::-1].cumsum()[::-1]
CumulativeInterest(interest) == Reverse(CumSum(Reverse(interest)))

\* lines 145-148: the DataFrame; `carried` is the loop variable, not a column
DataFrame(rows) ==
    LET cum == CumulativeInterest([i \in 1..Len(rows) |-> rows[i].interest])
    IN [i \in 1..Len(rows) |->
          [ period |-> rows[i].period,
            opening_balance |-> rows[i].opening_balance,
            interest |-> rows[i].interest,
            principal |-> rows[i].principal,
            period_payment |-> rows[i].period_payment,
            closing_balance |-> rows[i].closing_balance,
            cumulative_interest |-> cum[i] ]]

RECURSIVE SeriesSum(_)
\* Series.sum()
SeriesSum(s) ==
    IF Len(s) = 0 THEN 0
    ELSE IF Len(s) = 1 THEN s[1]
    ELSE LET m == Len(s) \div 2
         IN SeriesSum(SubSeq(s, 1, m)) + SeriesSum(SubSeq(s, m + 1, Len(s)))

\* Amortization.total_interest: self._df['interest'].sum()
total_interest(df) == SeriesSum([i \in 1..Len(df) |-> df[i].interest])

\* Amortization.total_outstanding_balance: self.principal_amount + self.total_interest
total_outstanding_balance(principal_amount, df) == principal_amount + total_interest(df)

Raised(e) == [err |-> e, rows |-> << >>]
Returned(df) == [err |-> "none", rows |-> df]

generate_amortization_table_swallowing(r, principal_amount, n, tpp, app, ior, nio) ==
    IF InterestOnlyArgsInvalid(ior, nio) THEN Raised("ArgumentError")
    ELSE IF PaymentRaises(r, Whole(PySub(n, nio))) THEN Returned(<< >>)
    ELSE IF ~n.int THEN Raised("TypeError")
    ELSE Returned(DataFrame(
            PeriodLoop(principal_amount,
                       [ n |-> Whole(n),
                         pay |-> EffectivePayment(r, principal_amount, n, tpp, app, nio),
                         r |-> r, ior |-> ior, nio |-> nio ])))

\* the call's outcome: the exception it raises, or the table it returns
generate_amortization_table(r, principal_amount, n, tpp, app, ior, nio) ==
    IF InterestOnlyArgsInvalid(ior, nio) THEN Raised("ArgumentError")
    ELSE IF PaymentRaises(r, Whole(PySub(n, nio))) THEN Raised("ZeroDivisionError")
    ELSE IF ~n.int THEN Raised("TypeError")
    ELSE Returned(DataFrame(
            PeriodLoop(principal_amount,
                       [ n |-> Whole(n),
                         pay |-> EffectivePayment(r, principal_amount, n, tpp, app, nio),
                         r |-> r, ior |-> ior, nio |-> nio ])))

\* ------------------------------------------------------------ _constants.py
\* a str is the sequence of its characters' code points
WEEKLY_PERIODS == 52
WEEKLY_NAME == << 119, 101, 101, 107, 108, 121 >>                          \* 'weekly'
\* WEEKLY_PERIODS / 2: true division, a float
FORTNIGHTLY_PERIODS == [int |-> FALSE, c |-> (WEEKLY_PERIODS * CScale) \div 2]
FORTNIGHTLY_NAME == << 102, 111, 114, 116, 110, 105, 103, 104, 116, 108, 121 >>  \* 'fortnightly'
MONTHLY_PERIODS == 12
MONTHLY_NAME == << 109, 111, 110, 116, 104, 108, 121 >>                    \* 'monthly'
INPLACE == TRUE

\* str.lower(): 'A'..'Z' are 65..90, 'a'..'z' are 97..122
lower(s) == [i \in 1..Len(s) |-> IF s[i] >= 65 /\ s[i] <= 90 THEN s[i] + 32 ELSE s[i]]

VALID_REPAYMENT_PERIODS == { WEEKLY_PERIODS * CScale, FORTNIGHTLY_PERIODS.c, MONTHLY_PERIODS * CScale }
VALID_REPAYMENT_NAMES == { lower(WEEKLY_NAME), lower(FORTNIGHTLY_NAME), lower(MONTHLY_NAME) }

\* ------------------------------------------------------- _amortization.py
\* the outcome of an expression: the exception it raises, or its value
Raise(e) == [err |-> e, val |-> None]
Return(v) == [err |-> "none", val |-> v]

\* a repayment_frequency argument: None, a str or a number
NoSpecifier == [kind |-> "None", str |-> << >>, num |-> PyInt(0)]
Str(s) == [kind |-> "str", str |-> s, num |-> PyInt(0)]
Num(x) == [kind |-> "num", str |-> << >>, num |-> x]

\* lines 29-36 on i = int(repayment_frequency), in hundredths; == compares by
\* value, so int 26 equals the float 26.0
NameOfPeriods_pasted(i) ==
    IF i = WEEKLY_PERIODS * CScale THEN Return(lower(MONTHLY_NAME))
    ELSE IF i = FORTNIGHTLY_PERIODS.c THEN Return(lower(FORTNIGHTLY_NAME))
    ELSE IF i = MONTHLY_PERIODS * CScale THEN Return(lower(MONTHLY_NAME))
    ELSE IF i \notin VALID_REPAYMENT_PERIODS THEN Raise("ValueError")
    ELSE Return(None)
NameOfPeriods(i) ==
    IF i = WEEKLY_PERIODS * CScale THEN Return(lower(WEEKLY_NAME))
    ELSE IF i = FORTNIGHTLY_PERIODS.c THEN Return(lower(FORTNIGHTLY_NAME))
    ELSE IF i = MONTHLY_PERIODS * CScale THEN Return(lower(MONTHLY_NAME))
    ELSE IF i \notin VALID_REPAYMENT_PERIODS THEN Raise("ValueError")
    ELSE Return(None)

\* lines 17-36
repayment_frequency_name(repayment_frequency) ==
    NameOfPeriods(PyTrunc(repayment_frequency) * CScale)

\* lines 50-57 on name = repayment_frequency.lower()
PeriodsOfName(name) ==
    IF name = lower(WEEKLY_NAME) THEN Return(PyInt(WEEKLY_PERIODS))
    ELSE IF name = lower(FORTNIGHTLY_NAME) THEN Return(FORTNIGHTLY_PERIODS)
    ELSE IF name = lower(MONTHLY_NAME) THEN Return(PyInt(MONTHLY_PERIODS))
    ELSE IF name \notin VALID_REPAYMENT_NAMES THEN Raise("ValueError")
    ELSE Return(None)

repayment_frequency_periods_as_written(repayment_frequency) == PeriodsOfName(repayment_frequency)

\* lines 38-57
repayment_frequency_periods(repayment_frequency) == PeriodsOfName(lower(repayment_frequency))

\* lines 338-339 (a name is a non-empty str, so it is truthy)
IntIfNamed(repayment_frequency, name) ==
    IF name.err # "none" THEN name
    ELSE IF name.val # None THEN Return(PyInt(PyTrunc(repayment_frequency)))
    ELSE Return(None)

_get_repayment_frequency_periods_or_default(self, repayment_frequency) ==
    IF repayment_frequency.kind = "None" THEN Return(PyInt(MONTHLY_PERIODS))
    ELSE IF repayment_frequency.kind = "str"
         THEN repayment_frequency_periods(repayment_frequency.str)
    ELSE IntIfNamed(repayment_frequency.num, repayment_frequency_name(repayment_frequency.num))

\* lines 324-339
_get_repayment_frequency_periods(self, repayment_frequency) ==
    IF repayment_frequency.kind = "None" THEN Return(self._repayment_frequency_periods)
    ELSE IF repayment_frequency.kind = "str"
         THEN repayment_frequency_periods(repayment_frequency.str)
    ELSE IntIfNamed(repayment_frequency.num, repayment_frequency_name(repayment_frequency.num))

\* float / number of periods (hundredths), to the nearest unit
FDivNum(a, x) ==
    Sign(a) * Sign(x.c) * LongDiv(Abs(a) \div Abs(x.c), Abs(a) % Abs(x.c), Abs(x.c), 2)

\* line 352: rate / periods, periods the outcome of the resolution
RatePerPeriod(nominal_annual_interest_rate, periods) ==
    IF periods.err # "none" THEN periods
    ELSE IF periods.val.c = 0 THEN Raise("ZeroDivisionError")
    ELSE Return(FDivNum(nominal_annual_interest_rate, periods.val))

\* lines 341-352
_nominal_interest_rate_per_period(self, nominal_annual_interest_rate, repayment_frequency) ==
    RatePerPeriod(nominal_annual_interest_rate,
                  _get_repayment_frequency_periods(self, repayment_frequency))

\* line 389: years * periods, periods the outcome of the resolution
TotalPeriods(years, periods) ==
    IF periods.err # "none" THEN periods ELSE Return(PyMul(years, periods.val))

\* lines 379-389
calculate_total_number_of_periods(self, years, repayment_frequency) ==
    TotalPeriods(years, _get_repayment_frequency_periods(self, repayment_frequency))

\* lines 99-106
n_periods(self) ==
    calculate_total_number_of_periods(self, self._years, Num(self._repayment_frequency_periods))

\* lines 243-246
n_interest_only_periods(self) ==
    calculate_total_number_of_periods(self, self._interest_only_years,
                                      Num(self._repayment_frequency_periods))

\* lines 225-231
has_interest_only(self) ==
    self._interest_only_nominal_annual_interest_rate > 0 /\ self._interest_only_years.c > 0

\* float * number (hundredths), to the nearest unit
MulNumMag(q, r, y) == q * y + RoundHalfEven((r * y) \div CScale, (r * y) % CScale, CScale)
FMulNum(a, x) ==
    Sign(a) * Sign(x.c) * MulNumMag(Abs(a) \div CScale, Abs(a) % CScale, Abs(x.c))

interest_only_payment_per_period_normal_rate(self) ==
    IF ~has_interest_only(self) THEN Return(0)
    ELSE IF self._repayment_frequency_periods.c = 0 THEN Raise("ZeroDivisionError")
    ELSE Return(FDivNum(FMul(self._principal_amount, self._nominal_annual_interest_rate),
                        self._repayment_frequency_periods))

\* lines 248-253: principal * rate / periods, left to right
interest_only_payment_per_period(self) ==
    IF ~has_interest_only(self) THEN Return(0)
    ELSE IF self._repayment_frequency_periods.c = 0 THEN Raise("ZeroDivisionError")
    ELSE Return(FDivNum(FMul(self._principal_amount,
                             self._interest_only_nominal_annual_interest_rate),
                        self._repayment_frequency_periods))

\* line 258 once interest_only_payment_per_period is evaluated
TimesPeriodsAndYears(payment, periods, years) ==
    IF payment.err # "none" THEN payment
    ELSE Return(FMulNum(FMulNum(payment.val, periods), years))

\* lines 255-258
total_interest_only_payments(self) ==
    TimesPeriodsAndYears(interest_only_payment_per_period(self),
                         self._repayment_frequency_periods, self._interest_only_years)

\* lines 186-190 once n_periods and n_interest_only_periods are evaluated
PeriodPayment(principal_amount, r, n) ==
    IF n.err # "none" THEN n
    ELSE IF PaymentRaises(r, Whole(n.val)) THEN Raise("ZeroDivisionError")
    ELSE Return(calculate_total_period_payment(principal_amount, r, Whole(n.val)))

\* self.n_periods - self.n_interest_only_periods
PrincipalPeriods(n, nio) ==
    IF n.err # "none" THEN n
    ELSE IF nio.err # "none" THEN nio
    ELSE Return(PySub(n.val, nio.val))

total_payment_per_period_all_periods(self) ==
    IF self._repayment_frequency_periods.c = 0 THEN Raise("ZeroDivisionError")
    ELSE PeriodPayment(self._principal_amount,
                       FDivNum(self._nominal_annual_interest_rate,
                               self._repayment_frequency_periods),
                       n_periods(self))

\* lines 179-190
total_payment_per_period(self) ==
    IF self._repayment_frequency_periods.c = 0 THEN Raise("ZeroDivisionError")
    ELSE PeriodPayment(self._principal_amount,
                       FDivNum(self._nominal_annual_interest_rate,
                               self._repayment_frequency_periods),
                       PrincipalPeriods(n_periods(self), n_interest_only_periods(self)))

\* the outcome of a method call on `self`: the exception it raised, the
\* attributes of self after it (_df holds the schedule's rows), whether it
\* bound a new table to self._df, and the entity it returned when that is
\* not self
Raises(self, e) == [err |-> e, self |-> self, rebound |-> FALSE, new |-> None]
ReturnsSelf(self) == [err |-> "none", self |-> self, rebound |-> TRUE, new |-> None]
ReturnsNew(self, made) ==
    [err |-> made.err, self |-> self, rebound |-> FALSE,
     new |-> IF made.err = "none" THEN Some(made.self) ELSE None]

\* lines 368-374: the arguments of the generate_amortization_table call, in
\* the order they are evaluated.  Each of the four computed ones resolves
\* self.repayment_frequency_periods through _get_repayment_frequency_periods;
\* `periods` is the outcome of that resolution
TableCallWith(self, periods) ==
    << RatePerPeriod(self._nominal_annual_interest_rate, periods),
       Return(self._principal_amount),
       TotalPeriods(self._years, periods),
       RatePerPeriod(self._interest_only_nominal_annual_interest_rate, periods),
       TotalPeriods(self._interest_only_years, periods) >>
TableCall(self) ==
    TableCallWith(self, _get_repayment_frequency_periods(self,
                            Num(self._repayment_frequency_periods)))

TableCallRaises(call) == \E k \in 1..Len(call) : call[k].err # "none"
TableCallError(call) ==
    call[CHOOSE k \in 1..Len(call) :
            call[k].err # "none" /\ \A j \in 1..(k - 1) : call[j].err = "none"].err

\* the values the entities of the model are given
MaxCalls == 2
NominalRates == { Fx(12, 100), Fx(24, 100), 0 }
EntityPrincipal == Fx(5, 1)
YearsValues == { PyInt(1), PyInt(2), PyFloat(1, 50) }
PeriodsValues == { PyInt(MONTHLY_PERIODS), PyInt(26), FORTNIGHTLY_PERIODS, PyInt(WEEKLY_PERIODS) }
InterestOnlyNominalRates == { 0, Fx(18, 100) }
InterestOnlyYearsValues == { PyFloat(0, 0), PyInt(0), PyInt(1), PyInt(2) }

EntityValues ==
    [ _nominal_annual_interest_rate : NominalRates,
      _principal_amount : { EntityPrincipal },
      _years : YearsValues,
      _repayment_frequency_periods : PeriodsValues,
      _interest_only_nominal_annual_interest_rate : InterestOnlyNominalRates,
      _interest_only_years : InterestOnlyYearsValues ]

\* generate_amortization_table is a function of its arguments: its results
\* for the calls the entities of the model can make, evaluated once
TableKey(call) ==
    [ r |-> call[1].val, principal_amount |-> call[2].val, n |-> call[3].val,
      ior |-> call[4].val, nio |-> call[5].val ]
TableKeys == { TableKey(TableCall(e)) : e \in EntityValues }
AmortizationTables ==
    [ k \in TableKeys |->
        generate_amortization_table(k.r, k.principal_amount, k.n, None, None, k.ior, k.nio) ]

\* line 375 and the exception of line 368: df is the table call's outcome
BindKeep(self, df) ==
    IF df.err # "none" THEN Raises(self, df.err)
    ELSE [ReturnsSelf(self) EXCEPT !.rebound = FALSE]
BindAppend(self, df) ==
    IF df.err # "none" THEN Raises(self, df.err)
    ELSE ReturnsSelf([self EXCEPT !._df = self._df \o df.rows])
Bind(self, df) ==
    IF df.err # "none" THEN Raises(self, df.err)
    ELSE ReturnsSelf([self EXCEPT !._df = df.rows])

\* lines 368-376 once the arguments are evaluated
GenerateFrom(self, call) ==
    IF TableCallRaises(call) THEN Raises(self, TableCallError(call))
    ELSE Bind(self, AmortizationTables[TableKey(call)])

\* lines 354-376
_generate_amortization_schedule(self) == GenerateFrom(self, TableCall(self))

\* `x or 0.0`
OrZero(x) == IF x = None \/ x[1] = 0 THEN 0 ELSE x[1]
OrZeroYears(x) == IF x = None \/ x[1].c = 0 THEN PyFloat(0, 0) ELSE x[1]

\* lines 272-273: set_repayment_frequency_periods, the inplace branch; the
\* right-hand side is evaluated before the attribute is assigned
AssignPeriods(self, periods) ==
    IF periods.err # "none" THEN Raises(self, periods.err)
    ELSE _generate_amortization_schedule(
             [self EXCEPT !._repayment_frequency_periods = periods.val])
set_repayment_frequency_periods_in_place(self, repayment_frequency) ==
    AssignPeriods(self, _get_repayment_frequency_periods(self, repayment_frequency))

\* lines 93-96: the end of the constructor, self being what lines 62-92 set
Configure(self, repayment_frequency) ==
    IF repayment_frequency.kind # "None"
    THEN set_repayment_frequency_periods_in_place(self, repayment_frequency)
    ELSE _generate_amortization_schedule(self)

\* lines 62-96: the class attributes, then the constructor's assignments;
\* set_repayment_frequency_periods is called with inplace left at INPLACE
__init__(nominal_annual_interest_rate, principal_amount, years, repayment_frequency, interest_only_nominal_annual_interest_rate, interest_only_years) ==
    Configure([ _repayment_frequency_periods |-> PyInt(MONTHLY_PERIODS),
                _nominal_annual_interest_rate |-> nominal_annual_interest_rate,
                _years |-> years,
                _principal_amount |-> principal_amount,
                _interest_only_nominal_annual_interest_rate |->
                    OrZero(interest_only_nominal_annual_interest_rate),
                _interest_only_years |-> OrZeroYears(interest_only_years),
                _df |-> << >> ],
              repayment_frequency)

copy_without_interest_only(self) ==
    ReturnsNew(self, __init__(self._nominal_annual_interest_rate, self._principal_amount,
                              self._years, Num(self._repayment_frequency_periods),
                              None, None))

\* lines 400-413
copy(self) ==
    ReturnsNew(self, __init__(self._nominal_annual_interest_rate, self._principal_amount,
                              self._years, Num(self._repayment_frequency_periods),
                              Some(self._interest_only_nominal_annual_interest_rate),
                              Some(self._interest_only_years)))

\* line 274: self.copy().set_repayment_frequency_periods(..., inplace=True);
\* c is the outcome of copy(), whose exception propagates
set_repayment_frequency_periods_on(c, repayment_frequency) ==
    IF c.err # "none" THEN c
    ELSE ReturnsNew(c.self, set_repayment_frequency_periods_in_place(c.new[1], repayment_frequency))

\* lines 261-274
set_repayment_frequency_periods(self, repayment_frequency, inplace) ==
    IF inplace THEN set_repayment_frequency_periods_in_place(self, repayment_frequency)
    ELSE set_repayment_frequency_periods_on(copy(self), repayment_frequency)

set_years_in_place_without_interest_only(self, years) ==
    _generate_amortization_schedule(
        [self EXCEPT !._years = years,
                     !._interest_only_nominal_annual_interest_rate = 0,
                     !._interest_only_years = PyFloat(0, 0)])

\* lines 287-288: set_years, the inplace branch
set_years_in_place(self, years) ==
    _generate_amortization_schedule([self EXCEPT !._years = years])

\* line 289: self.copy().set_years(years, inplace=True)
set_years_on(c, years) ==
    IF c.err # "none" THEN c ELSE ReturnsNew(c.self, set_years_in_place(c.new[1], years))

\* lines 276-289
set_years(self, years, inplace) ==
    IF inplace THEN set_years_in_place(self, years) ELSE set_years_on(copy(self), years)

\* lines 302-303: set_nominal_annual_interest_rate, the inplace branch
set_nominal_annual_interest_rate_in_place(self, nominal_annual_interest_rate) ==
    _generate_amortization_schedule(
        [self EXCEPT !._nominal_annual_interest_rate = nominal_annual_interest_rate])

\* line 304: self.copy().set_nominal_annual_interest_rate(rate, True)
set_nominal_annual_interest_rate_on(c, nominal_annual_interest_rate) ==
    IF c.err # "none" THEN c
    ELSE ReturnsNew(c.self, set_nominal_annual_interest_rate_in_place(
                                c.new[1], nominal_annual_interest_rate))

set_nominal_annual_interest_rate_on_self(self, nominal_annual_interest_rate, inplace) ==
    set_nominal_annual_interest_rate_in_place(self, nominal_annual_interest_rate)

\* lines 291-304
set_nominal_annual_interest_rate(self, nominal_annual_interest_rate, inplace) ==
    IF inplace THEN set_nominal_annual_interest_rate_in_place(self, nominal_annual_interest_rate)
    ELSE set_nominal_annual_interest_rate_on(copy(self), nominal_annual_interest_rate)

\* lines 318-320: set_interest_only, the inplace branch
set_interest_only_in_place(self, interest_only_nominal_annual_interest_rate, interest_only_years) ==
    _generate_amortization_schedule(
        [self EXCEPT !._interest_only_nominal_annual_interest_rate =
                         interest_only_nominal_annual_interest_rate,
                     !._interest_only_years = interest_only_years])

\* line 321: self.copy().set_interest_only(rate, years, inplace=True)
set_interest_only_on(c, interest_only_nominal_annual_interest_rate, interest_only_years) ==
    IF c.err # "none" THEN c
    ELSE ReturnsNew(c.self, set_interest_only_in_place(
                                c.new[1], interest_only_nominal_annual_interest_rate,
                                interest_only_years))

\* lines 306-321
set_interest_only(self, interest_only_nominal_annual_interest_rate, interest_only_years, inplace) ==
    IF inplace
    THEN set_interest_only_in_place(self, interest_only_nominal_annual_interest_rate,
                                    interest_only_years)
    ELSE set_interest_only_on(copy(self), interest_only_nominal_annual_interest_rate,
                              interest_only_years)

\* ------------------------------------------------------------- the state
VARIABLES
    args,      \* the arguments of a direct generate_amortization_table call
    outcome,   \* what that call raised or returned; "pending" before it
    objs,      \* the Amortization entities, in order of creation; _df names a table
    frames,    \* the DataFrame objects still referenced: id -> rows
    held,      \* the table a client got from amortization_schedule, and its rows then
    last,      \* the last call: method, entity, arguments, exception, entity returned
    calls,     \* the number of method calls made on entities
    history    \* the entities an in-place mutator raised on; whose copy() each entity is

tvars == << args, outcome >>
evars == << objs, frames, held, last, calls, history >>
vars == << args, outcome, objs, frames, held, last, calls, history >>

NoHeld == [ref |-> 0, of |-> 0, seen |-> << >>]
NoHistory == [raised |-> { }, copy_of |-> << >>]
Mutators ==
    { "set_repayment_frequency_periods", "set_years", "set_nominal_annual_interest_rate",
      "set_interest_only" }
NoCall == [op |-> "none", self |-> 0, inplace |-> TRUE, err |-> "none", arg |-> << >>, new |-> 0]

\* ------------------------------------------ direct calls of the generator
MaxPeriods == 5
MaxInterestOnlyPeriods == 3

Rates == { 0, Fx(1, 100), Fx(1, 10) }
\* 1, 5 and 1.00000001
Principals == { Fx(1, 1), Fx(5, 1), Fx(1, 1) + 1 }
PeriodCounts == { PyInt(k) : k \in -1..MaxPeriods } \cup { PyFloat(3, 0) }
\* no override, 0.5, 3 and 1.1
Overrides == { None, Some(Fx(1, 2)), Some(Fx(3, 1)), Some(Fx(11, 10)) }
Additionals == { None, Some(Fx(1, 1)), Some(-Fx(1, 4)) }
InterestOnlyRates == { 0, Fx(2, 100) }
InterestOnlyCounts == { PyInt(k) : k \in 0..MaxInterestOnlyPeriods } \cup { PyFloat(0, 0) }

TableArgs ==
    [ r : Rates, principal_amount : Principals, n : PeriodCounts,
      tpp : Overrides, app : Additionals,
      ior : InterestOnlyRates, nio : InterestOnlyCounts ]

Pending == [err |-> "pending", rows |-> << >>]

TableInit ==
    /\ args \in TableArgs
    /\ outcome = Pending
    /\ objs = << >>
    /\ frames = << >>
    /\ held = NoHeld
    /\ last = NoCall
    /\ calls = 0
    /\ history = NoHistory

\* the caller runs generate_amortization_table(**args)
Generate ==
    /\ outcome = Pending
    /\ outcome' = generate_amortization_table(args.r, args.principal_amount, args.n,
                                              args.tpp, args.app, args.ior, args.nio)
    /\ UNCHANGED args
    /\ UNCHANGED evars

TableNext == Generate

TableSpec == TableInit /\ [][TableNext]_vars

\* ----------------------------------------------- calls on the entities
ConstructYears == { PyInt(1), PyInt(2) }
\* 'Weekly' and 'daily'
ConstructSpecifiers ==
    { NoSpecifier, Str(<< 87, 101, 101, 107, 108, 121 >>), Str(<< 100, 97, 105, 108, 121 >>) }
ConstructInterestOnly ==
    { << None, None >>, << Some(Fx(18, 100)), Some(PyInt(1)) >>, << Some(Fx(18, 100)), None >> }
SetYearsValues == { PyInt(2), PyFloat(1, 50) }
SetRateValues == { Fx(24, 100), 0 }
\* 26, 'Fortnightly' and 'daily'
SetFrequencyValues ==
    { Num(PyInt(26)), Str(<< 70, 111, 114, 116, 110, 105, 103, 104, 116, 108, 121 >>),
      Str(<< 100, 97, 105, 108, 121 >>) }
SetInterestOnlyValues ==
    { << 0, PyInt(0) >>, << Fx(18, 100), PyInt(1) >>, << Fx(18, 100), PyInt(0) >>,
      << Fx(18, 100), PyInt(2) >> }

Entities == 1..Len(objs)

\* the entity as the methods see it: _df dereferenced
Load(i) == [objs[i] EXCEPT !._df = frames[objs[i]._df]]

\* the tables some entity or the client still references
Live(os, h) == { os[i]._df : i \in 1..Len(os) } \cup (IF h.ref = 0 THEN { } ELSE { h.ref })

\* an id no table in `used` has
NewFrame(used) ==
    CHOOSE id \in 1..(Cardinality(used) + 1) :
        id \notin used /\ \A j \in 1..(id - 1) : j \in used

SameDataFrame(i) == objs[i]._df
\* _amortization_functions.py line 145: each generation builds a new DataFrame
NewDataFrame(i) == NewFrame(DOMAIN frames)

Put(fs, id, rows) == [k \in DOMAIN fs \cup { id } |-> IF k = id THEN rows ELSE fs[k]]
Collect(fs, live) == [k \in DOMAIN fs \cap live |-> fs[k]]

\* the heap after a call on entity i with outcome res
Effect(i, res, op, inplace, arg) ==
    LET id1 == NewDataFrame(i)
        objs1 == [objs EXCEPT ![i] =
                     [res.self EXCEPT !._df = IF res.rebound THEN id1 ELSE objs[i]._df]]
        frames1 == IF res.rebound THEN Put(frames, id1, res.self._df) ELSE frames
        id2 == NewFrame(DOMAIN frames1)
        objs2 == IF res.new # None
                 THEN Append(objs1, [res.new[1] EXCEPT !._df = id2]) ELSE objs1
        frames2 == IF res.new # None THEN Put(frames1, id2, res.new[1]._df) ELSE frames1
    IN /\ objs' = objs2
       /\ frames' = Collect(frames2, Live(objs2, held))
       /\ last' = [op |-> op, self |-> i, inplace |-> inplace, err |-> res.err,
                   arg |-> arg, new |-> IF res.new # None THEN Len(objs2) ELSE 0]
       /\ calls' = calls + 1
       /\ history' = [raised |-> IF inplace /\ op \in Mutators /\ res.err # "none"
                                 THEN history.raised \cup { i } ELSE history.raised,
                      copy_of |-> IF res.new # None
                                  THEN Append(history.copy_of, IF op = "copy" THEN i ELSE 0)
                                  ELSE history.copy_of]
       /\ UNCHANGED << held, args, outcome >>

\* Amortization(rate, principal, years, repayment_frequency, io_rate, io_years)
Construct(rate, years, rf, io) ==
    /\ Len(objs) = 0
    /\ LET made == __init__(rate, EntityPrincipal, years, rf, io[1], io[2])
           id == NewFrame(DOMAIN frames)
       IN /\ objs' = IF made.err = "none"
                     THEN Append(objs, [made.self EXCEPT !._df = id]) ELSE objs
          /\ frames' = IF made.err = "none" /\ made.rebound
                       THEN Put(frames, id, made.self._df) ELSE frames
          /\ last' = [op |-> "__init__", self |-> 0, inplace |-> TRUE, err |-> made.err,
                      arg |-> << rate, years, rf, io >>,
                      new |-> IF made.err = "none" THEN 1 ELSE 0]
          /\ history' = [history EXCEPT !.copy_of =
                             IF made.err = "none" THEN Append(@, 0) ELSE @]
    /\ UNCHANGED << held, calls, args, outcome >>

SetRepaymentFrequencyPeriods(i, rf, inplace) ==
    /\ calls < MaxCalls
    /\ Effect(i, set_repayment_frequency_periods(Load(i), rf, inplace),
              "set_repayment_frequency_periods", inplace, << rf >>)

SetYears(i, years, inplace) ==
    /\ calls < MaxCalls
    /\ Effect(i, set_years(Load(i), years, inplace), "set_years", inplace, << years >>)

SetNominalAnnualInterestRate(i, rate, inplace) ==
    /\ calls < MaxCalls
    /\ Effect(i, set_nominal_annual_interest_rate(Load(i), rate, inplace),
              "set_nominal_annual_interest_rate", inplace, << rate >>)

SetInterestOnly(i, io, inplace) ==
    /\ calls < MaxCalls
    /\ Effect(i, set_interest_only(Load(i), io[1], io[2], inplace),
              "set_interest_only", inplace, io)

Copy(i) ==
    /\ calls < MaxCalls
    /\ Effect(i, copy(Load(i)), "copy", FALSE, << >>)

\* lines 139-143: the client reads entity.amortization_schedule and keeps it
AmortizationSchedule(i) ==
    /\ calls < MaxCalls
    /\ held' = [ref |-> objs[i]._df, of |-> i, seen |-> frames[objs[i]._df]]
    /\ frames' = Collect(frames, Live(objs, held'))
    /\ last' = [op |-> "amortization_schedule", self |-> i, inplace |-> TRUE,
                err |-> "none", arg |-> << >>, new |-> 0]
    /\ calls' = calls + 1
    /\ UNCHANGED << objs, history, args, outcome >>

Init ==
    /\ args = CHOOSE a \in TableArgs : TRUE
    /\ outcome = Pending
    /\ objs = << >>
    /\ frames = << >>
    /\ held = NoHeld
    /\ last = NoCall
    /\ calls = 0
    /\ history = NoHistory

Next ==
    \/ \E y \in ConstructYears, rf \in ConstructSpecifiers, io \in ConstructInterestOnly :
           Construct(Fx(12, 100), y, rf, io)
    \/ \E i \in Entities, rf \in SetFrequencyValues, b \in BOOLEAN :
           SetRepaymentFrequencyPeriods(i, rf, b)
    \/ \E i \in Entities, y \in SetYearsValues, b \in BOOLEAN : SetYears(i, y, b)
    \/ \E i \in Entities, r \in SetRateValues, b \in BOOLEAN :
           SetNominalAnnualInterestRate(i, r, b)
    \/ \E i \in Entities, io \in SetInterestOnlyValues, b \in BOOLEAN : SetInterestOnly(i, io, b)
    \/ \E i \in Entities : Copy(i)
    \/ \E i \in Entities : AmortizationSchedule(i)

Spec == Init /\ [][Next]_vars

\* ------------------------------------- calls that resolve a frequency
MaxFrequencyCalls == 1

\* None; 'weekly', 'WEEKLY', 'fortnightly', 'Fortnightly', 'Monthly', 'MONTHLY';
\* 'daily', '' and '12'; numbers
FrequencyNames ==
    { << 119, 101, 101, 107, 108, 121 >>, << 87, 69, 69, 75, 76, 89 >>,
      << 102, 111, 114, 116, 110, 105, 103, 104, 116, 108, 121 >>,
      << 70, 111, 114, 116, 110, 105, 103, 104, 116, 108, 121 >>,
      << 77, 111, 110, 116, 104, 108, 121 >>, << 77, 79, 78, 84, 72, 76, 89 >> }
FrequencyStrings == FrequencyNames \cup { << 100, 97, 105, 108, 121 >>, << >>, << 49, 50 >> }
FrequencyNumbers ==
    { PyInt(12), PyInt(26), PyInt(52), PyFloat(26, 0), PyInt(7), PyInt(0),
      PyFloat(12, 70), PyFloat(7, 50), PyFloat(51, 90) }
FrequencySpecifiers ==
    { NoSpecifier } \cup { Str(s) : s \in FrequencyStrings } \cup { Num(x) : x \in FrequencyNumbers }

\* entity.set_repayment_frequency_periods(rf, inplace), rf any specifier
SetRepaymentFrequency(i, rf, inplace) ==
    /\ calls < MaxFrequencyCalls
    /\ Effect(i, set_repayment_frequency_periods(Load(i), rf, inplace),
              "set_repayment_frequency_periods", inplace, << rf >>)

FrequencyNext ==
    \/ \E y \in ConstructYears, rf \in FrequencySpecifiers, io \in ConstructInterestOnly :
           Construct(Fx(12, 100), y, rf, io)
    \/ \E i \in Entities, rf \in FrequencySpecifiers, b \in BOOLEAN :
           SetRepaymentFrequency(i, rf, b)

FrequencySpec == Init /\ [][FrequencyNext]_vars

\* ------------------------------------------------------------ the claims
TableReturned == outcome.err = "none"
Rows == outcome.rows
LastRow == Rows[Len(Rows)]
\* the payment the call's amortizing rows were generated with
CallPayment ==
    EffectivePayment(args.r, args.principal_amount, args.n, args.tpp, args.app, args.nio)
InterestOnlyRow(i) ==
    args.ior > 0 /\ args.nio.c > 0 /\ i * CScale <= args.nio.c
\* "0 within rounding tolerance": less than half a cent
Tolerance == Scale \div 200

C3_ClosingNonNegative ==
    (TableReturned /\ args.principal_amount > 0) =>
        \A i \in 1..Len(Rows) : Rows[i].closing_balance >= 0

\* C3 witness: a schedule with a negative additional payment and a row whose
\* payment is below its interest, so that the balance grows
C3_Witness ==
    /\ TableReturned
    /\ args.app # None /\ args.app[1] < 0
    /\ \E i \in 1..Len(Rows) :
           /\ Rows[i].period_payment < Rows[i].interest
           /\ Rows[i].closing_balance > Rows[i].opening_balance

RECURSIVE SumFrom(_, _)
\* interest[i] + ... + interest[last] of the returned table
SumFrom(df, i) == IF i > Len(df) THEN 0 ELSE df[i].interest + SumFrom(df, i + 1)

Params(e) ==
    << e._nominal_annual_interest_rate, e._principal_amount, e._years.c,
       e._repayment_frequency_periods.c, e._interest_only_nominal_annual_interest_rate,
       e._interest_only_years.c >>

\* the table a fresh generation from the parameters of e gives or raises
FromScratchCall(call) ==
    IF TableCallRaises(call) THEN Raised(TableCallError(call))
    ELSE AmortizationTables[TableKey(call)]
FromScratch(e) == FromScratchCall(TableCall(e))
ScheduleIs(rows, df) == df.err = "none" /\ rows = df.rows
ScheduleOf(os, fs, i) == fs[os[i]._df]

MutatorCall(c) == c.op \in Mutators
InPlaceCall(c) == MutatorCall(c) /\ c.inplace
NewEntityCall(c) == MutatorCall(c) /\ ~c.inplace

\* C6: an entity that was constructed and on which every in-place mutator call
\* returned normally has a schedule, and that schedule is the one a fresh
\* generation from its current six parameters returns.
C6_ScheduleFromCurrentParameters ==
    \A i \in Entities \ history.raised :
        /\ objs[i]._df \in DOMAIN frames
        /\ ScheduleIs(frames[objs[i]._df], FromScratch(objs[i]))

\* C6 witness: one entity after two in-place mutator calls that returned
\* normally: only the setters give it rate 0.24 and 26 periods a year.
C6_Witness ==
    /\ Len(objs) = 1
    /\ calls = 2
    /\ history.raised = { }
    /\ InPlaceCall(last)
    /\ objs[1]._nominal_annual_interest_rate = Fx(24, 100)
    /\ objs[1]._repayment_frequency_periods.c = 26 * CScale

\* the parameter a mutator sets has the value of the call's argument in n;
\* o is the entity the call was made on
ResolvesTo(periods, n) ==
    periods.err = "none" /\ periods.val.c = n._repayment_frequency_periods.c
HasArgument(n, o, c) ==
    CASE c.op = "set_years" -> n._years = c.arg[1]
      [] c.op = "set_nominal_annual_interest_rate" ->
             n._nominal_annual_interest_rate = c.arg[1]
      [] c.op = "set_interest_only" ->
             /\ n._interest_only_nominal_annual_interest_rate = c.arg[1]
             /\ n._interest_only_years = c.arg[2]
      [] c.op = "set_repayment_frequency_periods" ->
             ResolvesTo(_get_repayment_frequency_periods(o, c.arg[1]), n)

\* the parameters the mutator does not set are those of o
OthersKept(n, o, op) ==
    /\ n._principal_amount = o._principal_amount
    /\ op # "set_years" => n._years.c = o._years.c
    /\ op # "set_nominal_annual_interest_rate" =>
           n._nominal_annual_interest_rate = o._nominal_annual_interest_rate
    /\ op # "set_repayment_frequency_periods" =>
           n._repayment_frequency_periods.c = o._repayment_frequency_periods.c
    /\ op # "set_interest_only" =>
           /\ n._interest_only_nominal_annual_interest_rate =
                  o._interest_only_nominal_annual_interest_rate
           /\ n._interest_only_years.c = o._interest_only_years.c

Untouched(j) ==
    /\ objs'[j] = objs[j]
    /\ objs'[j]._df \in DOMAIN frames'
    /\ frames'[objs'[j]._df] = frames[objs[j]._df]

MadeEntity(c) ==
    /\ c.new = Len(objs) + 1
    /\ Len(objs') = Len(objs) + 1
    /\ objs'[c.new]._df \in DOMAIN frames'
    /\ \A j \in Entities : objs'[j]._df # objs'[c.new]._df

\* C7: a mutator called with inplace=False leaves the entity it is called on
\* with its parameters and its schedule; when it returns, it returns another
\* entity, which has the argument as the mutated parameter, the original's
\* values for the other parameters, and the schedule generated from those.
C7_NotInPlaceStep ==
    (calls' = calls + 1 /\ NewEntityCall(last')) =>
        /\ Untouched(last'.self)
        /\ last'.err = "none" =>
               /\ MadeEntity(last')
               /\ HasArgument(objs'[last'.new], objs[last'.self], last')
               /\ OthersKept(objs'[last'.new], objs[last'.self], last'.op)
               /\ ScheduleIs(frames'[objs'[last'.new]._df], FromScratch(objs'[last'.new]))
C7_NotInPlaceLeavesOriginal == [][C7_NotInPlaceStep]_vars

\* C7 witness: a mutator with inplace=False has returned an entity whose
\* parameters and schedule differ from those of the entity it was called on.
C7_Witness ==
    /\ NewEntityCall(last)
    /\ last.err = "none"
    /\ last.new # 0
    /\ Params(objs[last.new]) # Params(objs[last.self])
    /\ frames[objs[last.new]._df] # frames[objs[last.self]._df]

\* C8: the table a client got from amortization_schedule still has the rows it
\* had when the client got it, whatever mutators are called afterwards.
C8_HeldTableKeepsRows ==
    held.ref # 0 => held.ref \in DOMAIN frames /\ frames[held.ref] = held.seen

\* C8 witness: after the client read the schedule of an entity, an in-place
\* mutator gave that entity another table, with other rows.
C8_Witness ==
    /\ held.ref # 0
    /\ InPlaceCall(last)
    /\ last.err = "none"
    /\ last.self = held.of
    /\ objs[held.of]._df # held.ref
    /\ frames[objs[held.of]._df] # held.seen

\* C9: copy() of an entity on which no in-place mutator raised returns; when
\* copy() returns, it returns another entity with the same six parameters and
\* a schedule with the same rows in a table of its own; an in-place mutator
\* called on an entity changes neither the parameters nor the schedule of any
\* other entity, its copies and the entity it is a copy of included.
C9_CopyStep ==
    /\ (calls' = calls + 1 /\ last'.op = "copy" /\ last'.self \notin history.raised) =>
           last'.err = "none"
    /\ (calls' = calls + 1 /\ last'.op = "copy" /\ last'.err = "none") =>
           /\ MadeEntity(last')
           /\ Untouched(last'.self)
           /\ Params(objs'[last'.new]) = Params(objs[last'.self])
           /\ frames'[objs'[last'.new]._df] = frames[objs[last'.self]._df]
    /\ (calls' = calls + 1 /\ InPlaceCall(last')) =>
           \A j \in Entities \ { last'.self } : Untouched(j)
C9_CopyIsIndependent == [][C9_CopyStep]_vars

\* C9 witness: an entity and its copy, after an in-place mutator on one of
\* them returned: they differ in parameters and in schedule.
C9_Witness ==
    /\ InPlaceCall(last)
    /\ last.err = "none"
    /\ \E j \in Entities :
           /\ history.copy_of[j] # 0
           /\ last.self \in { j, history.copy_of[j] }
           /\ Params(objs[j]) # Params(objs[history.copy_of[j]])
           /\ frames[objs[j]._df] # frames[objs[history.copy_of[j]]._df]

\* the argument of the call is the value entity e holds
Reapplies(e, c) ==
    CASE c.op = "set_years" -> c.arg[1].c = e._years.c
      [] c.op = "set_nominal_annual_interest_rate" ->
             c.arg[1] = e._nominal_annual_interest_rate
      [] c.op = "set_interest_only" ->
             /\ c.arg[1] = e._interest_only_nominal_annual_interest_rate
             /\ c.arg[2].c = e._interest_only_years.c
      [] c.op = "set_repayment_frequency_periods" ->
             ResolvesTo(_get_repayment_frequency_periods(e, c.arg[1]), e)

Generated(os, h) == (1..Len(os)) \ h.raised

\* C10: two entities with the same parameters, each constructed and mutated by
\* calls that returned, have schedules with the same rows; and an in-place
\* mutator called with the value the entity holds leaves its parameters and
\* the rows of its schedule as they were.
C10_Step ==
    /\ \A i \in Generated(objs', history') : \A j \in Generated(objs', history') :
           Params(objs'[i]) = Params(objs'[j]) =>
               ScheduleOf(objs', frames', i) = ScheduleOf(objs', frames', j)
    /\ (calls' = calls + 1 /\ InPlaceCall(last') /\ Reapplies(objs[last'.self], last')) =>
           /\ Params(objs'[last'.self]) = Params(objs[last'.self])
           /\ ScheduleOf(objs', frames', last'.self) = ScheduleOf(objs, frames, last'.self)
C10_Idempotent == [][C10_Step]_vars

\* C10 witness: set_years(2) returned on the one entity, which it left with its
\* interest-only year: an entity constructed with one interest-only year has
\* two years, so the call set the value the entity held; and the schedule is
\* regenerated, with the rows of a fresh generation.
C10_Witness ==
    /\ Len(objs) = 1
    /\ calls = 1
    /\ InPlaceCall(last)
    /\ last.op = "set_years"
    /\ last.arg[1] = PyInt(2)
    /\ last.err = "none"
    /\ objs[1]._interest_only_years.c = CScale
    /\ objs[1]._interest_only_nominal_annual_interest_rate = Fx(18, 100)


\* --------------------------------------------------------------- frequency
\* the specifier of a constructor or set_repayment_frequency_periods call
FrequencyCall(c) == c.op \in { "__init__", "set_repayment_frequency_periods" }
FrequencyOf(c) == IF c.op = "__init__" THEN c.arg[3] ELSE c.arg[1]

\* 'weekly', 'fortnightly', 'monthly' in any letter case, or 52, 26, 12
IsWeekly(s) == lower(s) = << 119, 101, 101, 107, 108, 121 >>
IsFortnightly(s) == lower(s) = << 102, 111, 114, 116, 110, 105, 103, 104, 116, 108, 121 >>
IsMonthly(s) == lower(s) = << 109, 111, 110, 116, 104, 108, 121 >>
KnownName(rf) == rf.kind = "str" /\ (IsWeekly(rf.str) \/ IsFortnightly(rf.str) \/ IsMonthly(rf.str))
KnownCount(rf) == rf.kind = "num" /\ rf.num.c \in { 52 * CScale, 26 * CScale, 12 * CScale }
Unknown(rf) == rf.kind # "None" /\ ~KnownName(rf) /\ ~KnownCount(rf)

\* C11: a constructor or set_repayment_frequency_periods call whose specifier
\* is neither one of the three names in any letter case nor a number equal to
\* 52, 26 or 12 raises ValueError, returns no entity and leaves every entity
\* and every schedule as it was.
C11_Step ==
    (FrequencyCall(last') /\ Unknown(FrequencyOf(last'))) =>
        /\ last'.err = "ValueError"
        /\ last'.new = 0
        /\ objs' = objs
        /\ frames' = frames
C11_UnknownSpecifierRaises == [][C11_Step]_vars


\* the count the spec gives a name: weekly 52, fortnightly 26, monthly 12
CountOfName(str) == IF IsWeekly(str) THEN 52 ELSE IF IsFortnightly(str) THEN 26 ELSE 12

\* the entity made agrees with the outcome `made` of another construction:
\* the same exception, or the same period count, number of periods and rows
SameConstruction(e, rows, err, made) ==
    /\ err = made.err
    /\ err = "none" =>
           /\ e._repayment_frequency_periods.c = made.self._repayment_frequency_periods.c
           /\ n_periods(e).val.c = n_periods(made.self).val.c
           /\ rows = made.self._df
ConstructedEntity == IF last.new = 0 THEN objs ELSE objs[last.new]
ConstructedRows == IF last.new = 0 THEN << >> ELSE frames[objs[last.new]._df]

\* C12: constructing an entity with one of the three names, in any letter
\* case, has the outcome of constructing it with the name's count (52, 26, 12)
\* and the same other arguments: it succeeds when that does, with the same
\* period count, the same number of periods and the same schedule rows.
C12_NameAsCount ==
    (last.op = "__init__" /\ KnownName(last.arg[3])) =>
        SameConstruction(ConstructedEntity, ConstructedRows, last.err,
                         __init__(last.arg[1], EntityPrincipal, last.arg[2],
                                  Num(PyInt(CountOfName(last.arg[3].str))),
                                  last.arg[4][1], last.arg[4][2]))

\* C12 witness: an entity constructed with 'Fortnightly' and an interest-only
\* year: 26 periods a year, 52 periods, 26 of them interest-only.
C12_Witness ==
    /\ last.op = "__init__"
    /\ last.err = "none"
    /\ KnownName(last.arg[3])
    /\ last.arg[3].str # lower(last.arg[3].str)
    /\ IsFortnightly(last.arg[3].str)
    /\ objs[1]._repayment_frequency_periods.c = 26 * CScale
    /\ Len(frames[objs[1]._df]) = 52
    /\ objs[1]._interest_only_years.c = CScale


\* entity j then has the period count and the schedule rows entity i had
KeepsFrequency(i, j) ==
    /\ objs'[j]._repayment_frequency_periods.c = objs[i]._repayment_frequency_periods.c
    /\ ScheduleOf(objs', frames', j) = ScheduleOf(objs, frames, i)

\* C13: a None specifier never raises the invalid-frequency error.  A
\* constructor called with None has the outcome of the constructor called with
\* 12, and the entity holds 12 periods a year.  set_repayment_frequency_periods(None)
\* returns on an entity on which no in-place mutator raised and leaves the
\* entity with its period count and its schedule rows; with inplace=False the
\* entity it returns has that period count and those rows too.
C13_Step ==
    (FrequencyCall(last') /\ FrequencyOf(last').kind = "None") =>
        /\ last'.err # "ValueError"
        /\ last'.op = "__init__" =>
               /\ SameConstruction(IF last'.new = 0 THEN objs' ELSE objs'[last'.new],
                                   IF last'.new = 0 THEN << >>
                                   ELSE ScheduleOf(objs', frames', last'.new),
                                   last'.err,
                                   __init__(last'.arg[1], EntityPrincipal, last'.arg[2],
                                            Num(PyInt(12)), last'.arg[4][1], last'.arg[4][2]))
               /\ last'.new # 0 =>
                      objs'[last'.new]._repayment_frequency_periods = PyInt(12)
        /\ last'.op = "set_repayment_frequency_periods" =>
               /\ last'.self \notin history.raised => last'.err = "none"
               /\ KeepsFrequency(last'.self, last'.self)
               /\ last'.new # 0 => KeepsFrequency(last'.self, last'.new)
C13_NoneKeepsFrequency == [][C13_Step]_vars

\* C13 witness: set_repayment_frequency_periods(None) returned on a weekly
\* entity, in place, and the entity is weekly still.
C13_Witness ==
    /\ last.op = "set_repayment_frequency_periods"
    /\ last.arg[1].kind = "None"
    /\ last.inplace
    /\ last.err = "none"
    /\ objs[last.self]._repayment_frequency_periods = PyInt(52)
    /\ Len(frames[objs[last.self]._df]) >= 52


\* resolving the name gives the count again
ResolvesBack(self, count, name) ==
    /\ name.err = "none"
    /\ name.val # None
    /\ name.val = lower(name.val)
    /\ IsWeekly(name.val) \/ IsFortnightly(name.val) \/ IsMonthly(name.val)
    /\ ResolvesTo(_get_repayment_frequency_periods(self, Str(name.val)),
                  [_repayment_frequency_periods |-> count])
\* the specifier resolves to `periods`, whose name resolves to it again
RoundTrip(self, periods) ==
    /\ periods.err = "none"
    /\ ResolvesBack(self, periods.val, repayment_frequency_name(periods.val))

\* C14: for each of the three names in any letter case and each of the counts
\* 52, 26 and 12 given to a constructor or to set_repayment_frequency_periods,
\* the specifier resolves to a period count, that count has one of the three
\* lowercase names, and that name resolves to the same period count.
C14_RoundTrip ==
    (FrequencyCall(last) /\ (KnownName(FrequencyOf(last)) \/ KnownCount(FrequencyOf(last)))) =>
        RoundTrip(objs, _get_repayment_frequency_periods(objs, FrequencyOf(last)))

\* C14 witness: set_repayment_frequency_periods('WEEKLY') returned, and the
\* entity holds the 52 periods the specifier resolves to.
C14_Witness ==
    /\ last.op = "set_repayment_frequency_periods"
    /\ last.inplace
    /\ last.err = "none"
    /\ last.arg[1] = Str(<< 87, 69, 69, 75, 76, 89 >>)
    /\ objs[last.self]._repayment_frequency_periods = PyInt(52)


\* ------------------------------------------------------ generator, again
TableCalled == outcome.err # "pending"

\* C15: a generate_amortization_table call raises ArgumentError, with no
\* table returned and whatever the payment formula would do with the other
\* arguments, exactly when one of interest_only_rate_per_period > 0 and
\* number_of_interest_only_periods > 0 holds and the other does not.
C15_InterestOnlyValidation ==
    TableCalled =>
        /\ outcome.err = "ArgumentError" <=> ((args.ior > 0) # (args.nio.c > 0))
        /\ outcome.err = "ArgumentError" => outcome.rows = << >>

\* C15 witness: interest-only periods without an interest-only rate, with a
\* rate per period of 0, at which the payment formula divides by zero.
C15_Witness ==
    /\ outcome.err = "ArgumentError"
    /\ args.r = 0
    /\ args.ior = 0
    /\ args.nio.c > 0


\* ------------------------------------------------------- entities, again
\* the interest-only arguments of a constructor or set_interest_only call
InterestOnlyCall(c) == c.op \in { "__init__", "set_interest_only" }
InterestOnlyRateOf(c) == IF c.op = "__init__" THEN OrZero(c.arg[4][1]) ELSE c.arg[1]
InterestOnlyYearsOf(c) == IF c.op = "__init__" THEN OrZeroYears(c.arg[4][2]) ELSE c.arg[2]
OnlyOneSet(c) ==
    /\ (InterestOnlyRateOf(c) > 0) # (InterestOnlyYearsOf(c).c > 0)
    /\ c.op = "__init__" => ~Unknown(c.arg[3])
\* the entity the call configured: the one it returned, or the one called on
Configured(c) == IF c.new # 0 THEN c.new ELSE c.self
WithoutInterestOnly(e) ==
    [e EXCEPT !._interest_only_nominal_annual_interest_rate = 0,
              !._interest_only_years = PyFloat(0, 0)]
\* the first row pays interest only
InterestOnlyFirst(rows) == Len(rows) > 0 /\ rows[1].principal = 0

\* C16: the schedule of an entity starts with interest-only rows iff both its
\* interest-only rate and its interest-only years are > 0; and a constructor
\* (given a frequency it resolves) or set_interest_only call with only one of
\* the two > 0 returns, on an entity on which no in-place mutator raised, and
\* the entity it configured has interest-only inactive and the schedule of
\* the same loan without interest-only parameters.
C16_Step ==
    /\ \A i \in Generated(objs', history') :
           InterestOnlyFirst(ScheduleOf(objs', frames', i)) <=> has_interest_only(objs'[i])
    /\ (InterestOnlyCall(last') /\ OnlyOneSet(last') /\ last'.self \notin history.raised) =>
           /\ last'.err = "none"
           /\ ~has_interest_only(objs'[Configured(last')])
           /\ ScheduleIs(ScheduleOf(objs', frames', Configured(last')),
                         FromScratch(WithoutInterestOnly(objs'[Configured(last')])))
C16_OneSetIsInactive == [][C16_Step]_vars


\* years * periods per year truncated to an integer, both in hundredths
Truncated(years, periods) == ((years.c * periods.c) \div CScale) \div CScale
\* the periods per year a constructor's specifier stands for
PeriodsPerYear(rf) ==
    IF rf.kind = "None" THEN PyInt(12)
    ELSE IF rf.kind = "str" THEN PyInt(CountOfName(rf.str)) ELSE rf.num
\* n_periods and n_interest_only_periods of e have the truncated values
TruncatedPeriods(e) ==
    /\ n_periods(e).err = "none"
    /\ n_periods(e).val.c = Truncated(e._years, e._repayment_frequency_periods) * CScale
    /\ n_interest_only_periods(e).err = "none"
    /\ n_interest_only_periods(e).val.c =
           Truncated(e._interest_only_years, e._repayment_frequency_periods) * CScale
\* the loan has years > 0 and more periods than interest-only periods
Amortizes(years, io_years, periods) ==
    years.c > 0 /\ Truncated(years, periods) > Truncated(io_years, periods)

\* C17: every entity with years > 0 has as n_periods the truncation of
\* years * periods per year, and as n_interest_only_periods that of
\* interest_only_years * periods per year; a generated schedule has n_periods
\* rows; and a constructor or set_years call with years > 0, an int or a float,
\* that leaves more periods than interest-only periods returns.
C17_Step ==
    /\ \A i \in 1..Len(objs') : objs'[i]._years.c > 0 => TruncatedPeriods(objs'[i])
    /\ \A i \in Generated(objs', history') :
           Len(ScheduleOf(objs', frames', i)) =
               Truncated(objs'[i]._years, objs'[i]._repayment_frequency_periods)
    /\ (last'.op = "set_years" /\ last'.self \notin history.raised
          /\ Amortizes(last'.arg[1], objs[last'.self]._interest_only_years,
                       objs[last'.self]._repayment_frequency_periods)) =>
           last'.err = "none"
    /\ (last'.op = "__init__" /\ ~Unknown(last'.arg[3]) /\ ~OnlyOneSet(last')
          /\ Amortizes(last'.arg[2], InterestOnlyYearsOf(last'), PeriodsPerYear(last'.arg[3]))) =>
           last'.err = "none"
C17_TruncatedPeriods == [][C17_Step]_vars


\* the attributes a set_years, set_nominal_annual_interest_rate or
\* set_interest_only call asks entity e to have
RegeneratingCall(c) ==
    c.op \in { "set_years", "set_nominal_annual_interest_rate", "set_interest_only" }
Target(e, c) ==
    CASE c.op = "set_years" -> [e EXCEPT !._years = c.arg[1]]
      [] c.op = "set_nominal_annual_interest_rate" ->
             [e EXCEPT !._nominal_annual_interest_rate = c.arg[1]]
      [] c.op = "set_interest_only" ->
             [e EXCEPT !._interest_only_nominal_annual_interest_rate = c.arg[1],
                       !._interest_only_years = c.arg[2]]
\* both interest-only values > 0 or neither; a rate of 0, or as many
\* interest-only periods as periods
ZeroRateOrPeriods(rate, years, io_rate, io_years) ==
    /\ (io_rate > 0) = (io_years.c > 0)
    /\ rate = 0 \/ years.c = io_years.c
Degenerate(e) ==
    ZeroRateOrPeriods(e._nominal_annual_interest_rate, e._years,
                      e._interest_only_nominal_annual_interest_rate, e._interest_only_years)

\* C18: generate_amortization_table raises ZeroDivisionError, returning no
\* table, for arguments that pass its validation with a rate per period of 0
\* or with as many interest-only periods as periods; and a constructor,
\* set_years, set_nominal_annual_interest_rate or set_interest_only call that
\* asks for such a loan raises ZeroDivisionError, returns no entity and leaves
\* the schedule of the entity it was called on as it was.
C18_Step ==
    /\ \A k \in TableKeys :
           ((k.ior > 0) = (k.nio.c > 0) /\ (k.r = 0 \/ k.n.c = k.nio.c)) =>
               AmortizationTables[k] = Raised("ZeroDivisionError")
    /\ (RegeneratingCall(last') /\ last'.self \notin history.raised
          /\ Degenerate(Target(objs[last'.self], last'))) =>
           /\ last'.err = "ZeroDivisionError"
           /\ last'.new = 0
           /\ ScheduleOf(objs', frames', last'.self) = ScheduleOf(objs, frames, last'.self)
    /\ (last'.op = "__init__" /\ ~Unknown(last'.arg[3])
          /\ ZeroRateOrPeriods(last'.arg[1], last'.arg[2],
                               InterestOnlyRateOf(last'), InterestOnlyYearsOf(last'))) =>
           /\ last'.err = "ZeroDivisionError"
           /\ last'.new = 0
           /\ objs' = objs
C18_DivisionByZeroPropagates == [][C18_Step]_vars

\* C18 witness: set_nominal_annual_interest_rate(0) raised ZeroDivisionError
\* in place on an entity that keeps its schedule, or set_interest_only raised
\* it for an interest-only term as long as the loan.
C18_Witness ==
    /\ last.err = "ZeroDivisionError"
    /\ last.self # 0
    /\ last.self \notin (history.raised \ { last.self })
    /\ Len(frames[objs[last.self]._df]) > 0
    /\ \/ last.op = "set_nominal_annual_interest_rate" /\ last.arg[1] = 0 /\ last.inplace
       \/ /\ last.op = "set_interest_only"
          /\ last.arg[1] > 0
          /\ last.arg[2].c = objs[last.self]._years.c


\* --------------------------------------------------- generator, payments
\* the minimum required payment: the PMT payment over the periods that pay
\* principal
MinimumPayment ==
    calculate_total_period_payment(args.principal_amount, args.r, Whole(PySub(args.n, args.nio)))
Max(a, b) == IF a >= b THEN a ELSE b
OrNought(x) == IF x = None THEN 0 ELSE x[1]
\* max(override or 0, minimum), plus the additional payment when supplied
ExpectedPayment(minimum) == Max(OrNought(args.tpp), minimum) + OrNought(args.app)
\* row i amortizes and the payment does not take the balance below 0
PaysInFull(i, payment) ==
    /\ ~InterestOnlyRow(i)
    /\ Rows[i].opening_balance - (payment - Rows[i].interest) >= 0

\* C19: in a returned schedule every amortizing row that the balance does not
\* cut short has period_payment = max(override or 0, minimum required
\* payment) + the additional payment (0 when none is supplied), and its
\* principal is that payment less the interest.
C19_EffectivePayment ==
    TableReturned =>
        \A i \in 1..Len(Rows) :
            PaysInFull(i, ExpectedPayment(MinimumPayment)) =>
                /\ Rows[i].period_payment = ExpectedPayment(MinimumPayment)
                /\ Rows[i].principal = ExpectedPayment(MinimumPayment) - Rows[i].interest

\* C19 witness: an override below the minimum with an additional payment: the
\* first row pays minimum + additional, which is not override + additional.
C19_Witness ==
    /\ TableReturned
    /\ args.tpp # None
    /\ args.app # None
    /\ args.tpp[1] < MinimumPayment
    /\ Len(Rows) >= 2
    /\ PaysInFull(1, ExpectedPayment(MinimumPayment))
    /\ Rows[1].period_payment = MinimumPayment + args.app[1]
    /\ Rows[1].period_payment # args.tpp[1] + args.app[1]


\* interest-only is active for k of the n periods, 0 < k < n
InterestOnlyPart ==
    /\ TableReturned
    /\ args.ior > 0
    /\ args.nio.c > 0
    /\ args.nio.c < args.n.c
\* rows 1..k pay interest only and close at `closing`
InterestOnlyRows(k, closing) ==
    \A i \in 1..k :
        /\ i <= Len(Rows)
        /\ Rows[i].principal = 0
        /\ Rows[i].interest = FMul(Rows[i].opening_balance, args.ior)
        /\ Rows[i].period_payment = Rows[i].interest
        /\ Rows[i].closing_balance = closing
\* row k + 1 is the first row whose balance goes down
FirstReduction(k) ==
    /\ Len(Rows) > k
    /\ Rows[k + 1].closing_balance < Rows[k + 1].opening_balance
    /\ \A i \in 1..k : Rows[i].closing_balance >= Rows[i].opening_balance - Round6Unit

\* C20 as stated: rows 1..k have principal 0, interest = opening balance *
\* interest-only rate, period_payment = interest and closing balance = the
\* original principal; row k+1 is the first to reduce the balance; rows
\* k+1..n pay the minimum payment for n - k periods at the normal rate.
C20_InterestOnlyThenMinimumAlways ==
    InterestOnlyPart =>
        /\ InterestOnlyRows(Whole(args.nio), args.principal_amount)
        /\ FirstReduction(Whole(args.nio))
        /\ Len(Rows) = Whole(args.n)
        /\ \A i \in (Whole(args.nio) + 1)..Len(Rows) :
               Rows[i].period_payment = MinimumPayment

\* C20 amended: without a payment override or an additional payment, rows 1..k
\* have principal 0, interest = opening balance * interest-only rate,
\* period_payment = interest and closing balance = the original principal
\* rounded to 6 decimals; row k+1 is the first to reduce the balance; there
\* are n rows, and rows k+1..n pay the minimum payment for n - k periods at
\* the normal rate, except that a row whose payment would take the balance
\* below 0 pays its principal + interest and closes at 0.
C20_InterestOnlyThenMinimum ==
    (InterestOnlyPart /\ args.tpp = None /\ args.app = None) =>
        /\ InterestOnlyRows(Whole(args.nio), round6(args.principal_amount))
        /\ FirstReduction(Whole(args.nio))
        /\ Len(Rows) = Whole(args.n)
        /\ \A i \in (Whole(args.nio) + 1)..Len(Rows) :
               IF PaysInFull(i, MinimumPayment)
               THEN Rows[i].period_payment = MinimumPayment
               ELSE /\ Rows[i].period_payment = Rows[i].principal + Rows[i].interest
                    /\ Rows[i].closing_balance = 0

\* C20 witness: 2 interest-only periods out of 5 on a principal of
\* 1.00000001, recorded as 1.000000 at the close of the interest-only rows.
C20_Witness ==
    /\ InterestOnlyPart
    /\ args.tpp = None
    /\ args.app = None
    /\ Whole(args.nio) = 2
    /\ Whole(args.n) = 5
    /\ Len(Rows) = 5
    /\ Rows[2].closing_balance # args.principal_amount
    /\ Rows[3].period_payment = MinimumPayment


\* -------------------------------------------------- generator, the clamp
\* row i amortizes, and the effective payment would take its balance below 0
Overshoots(i) ==
    /\ ~InterestOnlyRow(i)
    /\ Rows[i].opening_balance - (CallPayment - Rows[i].interest) < 0

Contiguous(rows) == \A i \in 1..Len(rows) : rows[i].period = i

\* C22 as stated: a call with n_periods >= 1 returns k rows, 1 <= k <=
\* n_periods, numbered 1..k in order; k < n_periods only if the last row's
\* recorded closing_balance is 0; and no row follows a row whose recorded
\* closing_balance is 0.
C22_EndsAtRecordedZero ==
    (TableReturned /\ args.n.c >= CScale) =>
        /\ Len(Rows) >= 1
        /\ Len(Rows) <= Whole(args.n)
        /\ Contiguous(Rows)
        /\ (Len(Rows) < Whole(args.n) => LastRow.closing_balance = 0)
        /\ \A i \in 1..(Len(Rows) - 1) : Rows[i].closing_balance # 0


\* ------------------------------------------- generator, amortizing rows
\* row i amortizes and is not clamped
Unclamped(i) == ~InterestOnlyRow(i) /\ ~Overshoots(i)

\* C23: in every amortizing row that is not clamped, interest = opening
\* balance * the normal rate per period and principal = effective payment -
\* that interest; calculate_principal_and_interest_payment returns the pair
\* (calculate_principal_payment, calculate_interest_payment) of its arguments.
C23_PrincipalAndInterest ==
    TableReturned =>
        \A i \in 1..Len(Rows) :
            Unclamped(i) =>
                /\ Rows[i].interest = FMul(Rows[i].opening_balance, args.r)
                /\ Rows[i].principal = CallPayment - Rows[i].interest
                /\ calculate_principal_and_interest_payment(
                       CallPayment, Rows[i].opening_balance, args.r)
                   = << calculate_principal_payment(
                            CallPayment, Rows[i].opening_balance, args.r),
                        calculate_interest_payment(Rows[i].opening_balance, args.r) >>

\* C23 witness: after an interest-only row at another rate, two unclamped
\* amortizing rows whose interest differs because their opening balances do
C23_Witness ==
    /\ TableReturned
    /\ Len(Rows) >= 3
    /\ InterestOnlyRow(1)
    /\ args.ior # args.r
    /\ Unclamped(2) /\ Unclamped(3)
    /\ Rows[2].interest > Rows[3].interest
    /\ Rows[3].interest > 0
    /\ Rows[2].principal > 0
    /\ Rows[2].principal # Rows[2].interest


\* ------------------------------------------- entities, a mutator raising
\* C24 as stated: an in-place mutator call that raises leaves the entity with
\* its six parameters and its schedule, so that (for an entity whose schedule
\* was the one generated from its parameters) it still is.
C24_Step ==
    (calls' = calls + 1 /\ InPlaceCall(last') /\ last'.err # "none") =>
        /\ Params(objs'[last'.self]) = Params(objs[last'.self])
        /\ ScheduleOf(objs', frames', last'.self) = ScheduleOf(objs, frames, last'.self)
        /\ last'.self \notin history.raised =>
               ScheduleIs(ScheduleOf(objs', frames', last'.self),
                          FromScratch(objs'[last'.self]))
C24_RaisingMutatorChangesNothing == [][C24_Step]_vars


\* ------------------------------------------ entities, derived properties
\* row k of the schedule of e is one of its interest-only rows
InterestOnlyRowOf(e, k) ==
    has_interest_only(e) /\ k * CScale <= n_interest_only_periods(e).val.c
\* the payment would take the balance of the row below 0
Clamps(row, payment) == row.opening_balance - (payment - row.interest) < 0
\* every amortizing row of the schedule pays `payment`, except a clamped
\* last row
PaysEachPeriod(e, rows, payment) ==
    /\ payment.err = "none"
    /\ \A k \in 1..Len(rows) :
           (~InterestOnlyRowOf(e, k) /\ ~(k = Len(rows) /\ Clamps(rows[k], payment.val))) =>
               rows[k].period_payment = payment.val

\* C25: for every entity that was constructed and on which every in-place
\* mutator call returned, total_payment_per_period is the period_payment of
\* every amortizing row of its schedule except a clamped last row, with or
\* without interest-only rows.
C25_PaymentPropertyIsRowPayment ==
    \A i \in Entities \ history.raised :
        PaysEachPeriod(objs[i], frames[objs[i]._df], total_payment_per_period(objs[i]))

\* C25 witness: an entity with interest-only rows, after an in-place mutator
\* returned: the row after its interest-only rows pays the property's value,
\* which the interest-only rows do not.
C25_Witness ==
    /\ Len(objs) >= 1
    /\ 1 \notin history.raised
    /\ InPlaceCall(last) /\ last.err = "none" /\ last.self = 1
    /\ has_interest_only(objs[1])
    /\ Len(frames[objs[1]._df]) > Whole(n_interest_only_periods(objs[1]).val) + 1
    /\ frames[objs[1]._df][Whole(n_interest_only_periods(objs[1]).val) + 1].period_payment
           = total_payment_per_period(objs[1]).val
    /\ frames[objs[1]._df][1].period_payment # total_payment_per_period(objs[1]).val


\* the number of interest-only rows in the schedule of e
InterestOnlyRowCount(e, rows) ==
    IF ~has_interest_only(e) THEN 0
    ELSE IF Whole(n_interest_only_periods(e).val) < Len(rows)
         THEN Whole(n_interest_only_periods(e).val) ELSE Len(rows)
\* the sum of the interest column over the first m rows
InterestOver(rows, m) == SeriesSum([k \in 1..m |-> rows[k].interest])
\* the two properties against the rows, to within `tolerance`
InterestOnlyProperties(e, rows, payment, total, tolerance) ==
    /\ payment.err = "none"
    /\ total.err = "none"
    /\ \A k \in 1..InterestOnlyRowCount(e, rows) :
           Abs(rows[k].interest - payment.val) <= tolerance
    /\ Abs(total.val - InterestOver(rows, InterestOnlyRowCount(e, rows))) <= tolerance
\* both properties are 0
NoInterestOnlyPayments(payment, total) ==
    /\ payment.err = "none" /\ payment.val = 0
    /\ total.err = "none" /\ total.val = 0
\* the entity has fewer interest-only periods than periods
InterestOnlyThenAmortizing(e) ==
    n_interest_only_periods(e).val.c < n_periods(e).val.c

\* C26 as stated: for every entity with interest-only active,
\* interest_only_payment_per_period is the interest of each interest-only row
\* and total_interest_only_payments is the sum of the interest of those rows;
\* with interest-only inactive both are 0.
C26_InterestOnlyPropertiesExactly ==
    \A i \in Entities \ history.raised :
        IF has_interest_only(objs[i])
        THEN InterestOnlyProperties(objs[i], frames[objs[i]._df],
                                    interest_only_payment_per_period(objs[i]),
                                    total_interest_only_payments(objs[i]), 0)
        ELSE NoInterestOnlyPayments(interest_only_payment_per_period(objs[i]),
                                    total_interest_only_payments(objs[i]))

\* C26 amended: for every entity with interest-only active and fewer
\* interest-only periods than periods, interest_only_payment_per_period is the
\* interest of each interest-only row to within rounding tolerance, and
\* total_interest_only_payments is the sum of the interest of those rows to
\* within rounding tolerance; with interest-only inactive both are 0.
C26_InterestOnlyProperties ==
    \A i \in Entities \ history.raised :
        IF has_interest_only(objs[i])
        THEN InterestOnlyThenAmortizing(objs[i]) =>
                 InterestOnlyProperties(objs[i], frames[objs[i]._df],
                                        interest_only_payment_per_period(objs[i]),
                                        total_interest_only_payments(objs[i]), Tolerance)
        ELSE NoInterestOnlyPayments(interest_only_payment_per_period(objs[i]),
                                    total_interest_only_payments(objs[i]))

\* C26 witness: an entity with one interest-only year out of two whose
\* property differs from the interest of its first row in the last digits
C26_Witness ==
    /\ Len(objs) >= 1
    /\ 1 \notin history.raised
    /\ has_interest_only(objs[1])
    /\ InterestOnlyThenAmortizing(objs[1])
    /\ interest_only_payment_per_period(objs[1]).val # frames[objs[1]._df][1].interest
    /\ Abs(interest_only_payment_per_period(objs[1]).val - frames[objs[1]._df][1].interest)
           <= Tolerance
    /\ total_interest_only_payments(objs[1]).val > 0


\* ---------------------------------------------------- generator, the sums
PrincipalColumn(rows) == SeriesSum([i \in 1..Len(rows) |-> rows[i].principal])
PaymentColumn(rows) == SeriesSum([i \in 1..Len(rows) |-> rows[i].period_payment])
\* the two sums of the claim differ from their values by at most `tolerance`
ColumnsSum(tolerance) ==
    /\ Abs(PrincipalColumn(Rows) - (args.principal_amount - LastRow.closing_balance))
           <= tolerance
    /\ LastRow.closing_balance = 0 =>
           Abs(PaymentColumn(Rows) - total_outstanding_balance(args.principal_amount, Rows))
               <= tolerance

\* C27 as stated: in every generated schedule the principal column sums to the
\* original principal - the last row's closing balance; when the schedule ends
\* at balance 0, period_payment sums over all rows to
\* total_outstanding_balance = principal_amount + total_interest.
C27_ColumnsSumExactly ==
    (TableReturned /\ Len(Rows) > 0) => ColumnsSum(0)

\* C27 amended: in every generated schedule the principal column sums to the
\* original principal - the last row's closing balance to within rounding
\* tolerance (the recorded closing balance is rounded to 6 decimals); when the
\* schedule ends at a recorded balance of 0, period_payment sums over all
\* rows to total_outstanding_balance to within rounding tolerance.
C27_ColumnsSum ==
    (TableReturned /\ Len(Rows) > 0) => ColumnsSum(Tolerance)

\* C27 witness: a schedule generated as the entities generate theirs, with
\* interest-only rows, that runs all its periods and ends at a recorded
\* balance of 0 with a residue: the payments sum to principal + interest less
\* the residue.
C27_Witness ==
    /\ TableReturned
    /\ args.tpp = None /\ args.app = None
    /\ InterestOnlyRow(1)
    /\ Len(Rows) = Whole(args.n)
    /\ Len(Rows) >= 3
    /\ LastRow.closing_balance = 0
    /\ PaymentColumn(Rows) # total_outstanding_balance(args.principal_amount, Rows)
    /\ PrincipalColumn(Rows) > 0


\* ------------------------------------------- entities, order of mutators
\* the in-place mutator calls the clients of the model make
MutatorCalls ==
    { [op |-> "set_years", arg |-> << y >>] : y \in SetYearsValues }
    \cup { [op |-> "set_nominal_annual_interest_rate", arg |-> << r >>] : r \in SetRateValues }
    \cup { [op |-> "set_repayment_frequency_periods", arg |-> << rf >>] :
              rf \in SetFrequencyValues }
    \cup { [op |-> "set_interest_only", arg |-> io] : io \in SetInterestOnlyValues }

\* entity.<op>(*arg, inplace=True) on e
CallInPlace(e, c) ==
    CASE c.op = "set_years" -> set_years(e, c.arg[1], TRUE)
      [] c.op = "set_nominal_annual_interest_rate" ->
             set_nominal_annual_interest_rate(e, c.arg[1], TRUE)
      [] c.op = "set_repayment_frequency_periods" ->
             set_repayment_frequency_periods(e, c.arg[1], TRUE)
      [] c.op = "set_interest_only" -> set_interest_only(e, c.arg[1], c.arg[2], TRUE)

\* b after a on e; the exception of a, when a raises
Then(a, e, b) == IF a.err # "none" THEN a ELSE CallInPlace(a.self, b)

\* both orders return, and end in the same parameters and the same rows
SameEitherWay(ab, ba) ==
    (ab.err = "none" /\ ba.err = "none") =>
        /\ Params(ab.self) = Params(ba.self)
        /\ ab.self._df = ba.self._df

\* C28: when an in-place mutator has returned on an entity, calling an
\* in-place mutator of another parameter next ends, when it returns, in the
\* parameters and the schedule that the two calls made in the other order on
\* the entity as it was end in, when they return.
C28_Step ==
    (calls' = calls + 1 /\ InPlaceCall(last') /\ last'.err = "none") =>
        \A b \in MutatorCalls :
            b.op # last'.op =>
                SameEitherWay(
                    CallInPlace([objs'[last'.self] EXCEPT
                                     !._df = frames'[objs'[last'.self]._df]], b),
                    Then(CallInPlace(Load(last'.self), b), Load(last'.self),
                         [op |-> last'.op, arg |-> last'.arg]))
C28_MutatorsCommute == [][C28_Step]_vars

\* C28 witness: set_nominal_annual_interest_rate(0.24) and then set_years, in
\* place on the one entity, have both returned.
C28_Witness ==
    /\ Len(objs) = 1
    /\ calls = 2
    /\ history.raised = { }
    /\ InPlaceCall(last)
    /\ last.err = "none"
    /\ last.op = "set_years"
    /\ objs[1]._nominal_annual_interest_rate = Fx(24, 100)
    /\ ScheduleIs(frames[objs[1]._df], FromScratch(objs[1]))


\* --------------------------------------------- generator, the balance
\* a returned schedule for a positive rate, a positive principal and an
\* additional payment that is absent or not negative
PayingDown ==
    /\ TableReturned
    /\ args.r > 0
    /\ args.principal_amount > 0
    /\ (args.app = None \/ args.app[1] >= 0)

\* C29 as stated: with a positive rate, a positive principal and a
\* non-negative additional payment, each interest-only row has closing_balance
\* = its opening_balance, and each amortizing row has principal > 0 and
\* closing_balance < its opening_balance.
C29_BalanceNeverRisesExactly ==
    PayingDown =>
        \A i \in 1..Len(Rows) :
            IF InterestOnlyRow(i)
            THEN Rows[i].closing_balance = Rows[i].opening_balance
            ELSE /\ Rows[i].principal > 0
                 /\ Rows[i].closing_balance < Rows[i].opening_balance

\* C29 amended: with a positive rate, a positive principal and a non-negative
\* additional payment, each interest-only row has closing_balance = its
\* opening_balance rounded to 6 decimals, and each amortizing row has
\* principal > 0 and closing_balance = opening_balance - principal rounded
\* to 6 decimals, which is below its opening_balance when the principal is
\* 0.000001 or more.
C29_BalanceNeverRises ==
    PayingDown =>
        \A i \in 1..Len(Rows) :
            IF InterestOnlyRow(i)
            THEN Rows[i].closing_balance = round6(Rows[i].opening_balance)
            ELSE /\ Rows[i].principal > 0
                 /\ Rows[i].closing_balance =
                        round6(Rows[i].opening_balance - Rows[i].principal)
                 /\ Rows[i].principal >= Round6Unit =>
                        Rows[i].closing_balance < Rows[i].opening_balance

\* C29 witness: an override below the minimum and an additional payment on a
\* principal of 1.00000001: the interest-only row records 1.000000, the
\* amortizing row brings the balance down.
C29_Witness ==
    /\ PayingDown
    /\ args.tpp # None /\ args.tpp[1] < MinimumPayment
    /\ args.app # None /\ args.app[1] > 0
    /\ Len(Rows) >= 2
    /\ InterestOnlyRow(1) /\ ~InterestOnlyRow(2)
    /\ Rows[1].closing_balance # Rows[1].opening_balance
    /\ Rows[2].principal > 0
    /\ Rows[2].closing_balance < Rows[2].opening_balance

====
